---------------------------- MODULE Spec2Model ----------------------------
(***************************************************************************)
(* Model of the platform integrations' shared SafeHttpClient               *)
(* (URL building and validation, auth headers, rate limiter, retry loop).  *)
(*                                                                         *)
(* Time is counted in seconds: the 60000 ms window is 60, the backoff      *)
(* Math.pow(2, attempt) * 1000 ms is 2^attempt.                            *)
(***************************************************************************)
EXTENDS Integers, Sequences, FiniteSets, TLC

(***************************************************************************)
(* Bounds of the model.                                                    *)
(***************************************************************************)
MaxTime == 125
MaxLimit == 2
MaxRetry == 3
MaxRequired == 2
MaxTunnels == 2

\* The logical call sites sharing one client.
Calls == {1, 2}

(***************************************************************************)
(* URL texts.  A URL string is represented by its syntactic parts, the     *)
(* host as it is written in the string; its query string is the sequence   *)
(* of its key=value pairs, as written (form-urlencoded).                   *)
(***************************************************************************)
UrlText(s, h, p) == [scheme |-> s, host |-> h, port |-> p, search |-> <<>>]

\* The same text with the query string `search`.
WithSearch(text, search) == [text EXCEPT !.search = search]

\* Values of config.baseUrl.
BaseUrls == {UrlText("https", "api.example.com", ""),
             UrlText("http", "localhost", "4040")}

\* Values of options.path: relative, absolute-URL, protocol-relative.
Relative ==
    [form |-> "relative", scheme |-> "", host |-> "", port |-> "", search |-> <<>>]
Absolute(s, h, p) ==
    [form |-> "absolute", scheme |-> s, host |-> h, port |-> p, search |-> <<>>]
ProtocolRelative(h, p) ==
    [form |-> "protocolRelative", scheme |-> "", host |-> h, port |-> p,
     search |-> <<>>]

Failure == [failure |-> TRUE]

\* The WHATWG host parser and serializer behind `new URL(...).hostname`:
\* a domain is lower-cased, an IPv4 address is written in full, an IPv6
\* literal keeps its brackets, "[" alone fails.
ParseHost(h) ==
    CASE h = "[" -> "failure"
      [] h = "LOCALHOST" -> "localhost"
      [] h = "127.1" -> "127.0.0.1"
      [] OTHER -> h

\* url.protocol of a scheme, and back.
Protocol(scheme) == scheme \o ":"
SchemeOf(protocol) == IF protocol = "https:" THEN "https" ELSE "http"

\* application/x-www-form-urlencoded, as URLSearchParams writes and reads a
\* key or a value: a space is written "+", an ampersand "%26".
FormEncode(v) ==
    CASE v = "x y" -> "x+y"
      [] v = "a&b" -> "a%26b"
      [] OTHER -> v

FormDecode(w) ==
    CASE w = "x+y" -> "x y"
      [] w = "a%26b" -> "a&b"
      [] OTHER -> w

\* url.searchParams of a query string, and the query string of the params.
ParseSearch(search) ==
    [i \in 1..Len(search) |-> <<FormDecode(search[i][1]), FormDecode(search[i][2])>>]

SerializeSearch(params) ==
    [i \in 1..Len(params) |-> <<FormEncode(params[i][1]), FormEncode(params[i][2])>>]

\* new URL(text): protocol carries the colon, hostname is the serialized host.
NewURL(text) ==
    IF ParseHost(text.host) = "failure"
    THEN Failure
    ELSE [protocol |-> Protocol(text.scheme), hostname |-> ParseHost(text.host),
          port |-> text.port, searchParams |-> ParseSearch(text.search)]

\* new URL(path, base): an absolute path replaces the base, a
\* protocol-relative one keeps only the base's scheme, a relative one keeps
\* the base's scheme, host and port.  The query string is the path's.
NewURLWithBase(path, base) ==
    CASE path.form = "absolute" ->
           NewURL(WithSearch(UrlText(path.scheme, path.host, path.port), path.search))
      [] path.form = "protocolRelative" ->
           NewURL(WithSearch(UrlText(base.scheme, path.host, path.port), path.search))
      [] OTHER -> NewURL(WithSearch(base, path.search))

\* url.toString(): the href, as a URL text again.
Href(u) ==
    WithSearch(UrlText(SchemeOf(u.protocol), u.hostname, u.port),
               SerializeSearch(u.searchParams))

\* url.origin.
Origin(u) == <<u.protocol, u.hostname, u.port>>

(***************************************************************************)
(* SafeHttpClient: pure helpers.                                           *)
(***************************************************************************)
blockedHosts == {"localhost", "127.0.0.1", "0.0.0.0", "::1"}

\* validateUrl(url), under NODE_ENV === 'production' or not.
validateUrl(url, prod) ==
    LET parsed == NewURL(url) IN
    IF parsed = Failure THEN FALSE
    ELSE IF prod /\ parsed.protocol # "https:" THEN FALSE
    ELSE IF parsed.hostname \in blockedHosts THEN ~prod
    ELSE TRUE

\* The query string of the path discarded before the pairs are appended.
buildUrl_QueryOnly(path, query, base) ==
    LET url == NewURLWithBase(path, base) IN
    IF url = Failure THEN Failure ELSE Href([url EXCEPT !.searchParams = query])

\* buildUrl(path, query): Failure stands for the TypeError of new URL; the
\* entries of query (<<>> when it is not given) are appended in their order
\* to the pairs the URL already has.
buildUrl(path, query, base) ==
    LET url == NewURLWithBase(path, base) IN
    IF url = Failure
    THEN Failure
    ELSE Href([url EXCEPT !.searchParams = url.searchParams \o query])

(***************************************************************************)
(* Headers.  A header record gives each name its value, Absent when the    *)
(* record has no such key; {...a, ...b} is Spread(a, b).                   *)
(***************************************************************************)
AuthNames == {"Authorization", "X-API-Key"}
HeaderNames == {"Content-Type", "User-Agent"} \cup AuthNames
Absent == "<absent>"
NoHeaders == [n \in HeaderNames |-> Absent]

Spread(a, b) == [n \in HeaderNames |-> IF b[n] # Absent THEN b[n] ELSE a[n]]

\* config.credentials: "" stands for a credential that is undefined or empty.
CredentialSets == [accessToken : {"", "t"}, apiKey : {"", "k"}]
NoCredentials == [accessToken |-> "", apiKey |-> ""]

\* getAuthHeaders()
getAuthHeaders(credentials) ==
    IF credentials.accessToken # ""
    THEN [NoHeaders EXCEPT !["Authorization"] = "Bearer " \o credentials.accessToken]
    ELSE IF credentials.apiKey # ""
    THEN [NoHeaders EXCEPT !["X-API-Key"] = credentials.apiKey]
    ELSE NoHeaders

\* The two headers request() always sets.
DefaultHeaders(version) ==
    [NoHeaders EXCEPT !["Content-Type"] = "application/json",
                      !["User-Agent"] = "BlackRoad-CLI/" \o version]

\* The headers request() hands to fetch().
RequestHeaders(cfg, optionHeaders) ==
    Spread(Spread(DefaultHeaders(cfg.version), getAuthHeaders(cfg.credentials)),
           optionHeaders)

\* The verdict of validateUrl ignored.
Rejects_Never(url, prod) == FALSE

\* if (!this.validateUrl(url)) throw ...
Rejects(url, prod) == ~validateUrl(url, prod)

(***************************************************************************)
(* core/config.ts: environment, createPlatformConfig, validateCredentials, *)
(* sanitizeConfigForLogging.                                               *)
(***************************************************************************)
Undefined == "<undefined>"
Threw == "<threw>"

\* !value
Falsy(value) == value \in {Undefined, ""}

CredentialKeys == {"apiKey", "apiSecret", "accessToken", "refreshToken", "webhookSecret"}

\* `${envPrefix}_API_KEY` and so on, without the prefix.
EnvName(key) ==
    CASE key = "apiKey" -> "_API_KEY"
      [] key = "apiSecret" -> "_API_SECRET"
      [] key = "accessToken" -> "_ACCESS_TOKEN"
      [] key = "refreshToken" -> "_REFRESH_TOKEN"
      [] key = "webhookSecret" -> "_WEBHOOK_SECRET"

EnvNames == {EnvName(key) : key \in CredentialKeys} \cup {"_ENABLED"}

\* process.env: a variable is unset, empty, or holds a value.
Secrets == {"s1", "s2"}
EnvValues == {Undefined, ""} \cup Secrets
Envs ==
    {e \in [EnvNames -> EnvValues \cup {"true"}] :
        /\ e["_ENABLED"] \in {Undefined, "true"}
        /\ \A key \in CredentialKeys : e[EnvName(key)] \in EnvValues}

\* getEnvVar(key, required = false)
getEnvVar(env, name, required) ==
    IF required /\ Falsy(env[name]) THEN Threw ELSE env[name]

\* createPlatformConfig: `options.retryAttempts || 3`.  The option 0 stands
\* for 0 and for an option not given, both falsy; any other number is kept.
DefaultRetryAttempts == 3
OrDefault(option, default) == IF option = 0 THEN default ELSE option

\* createPlatformConfig(name, baseUrl, envPrefix, options = {}): the config,
\* or Threw in `raised` when a getEnvVar call throws.
createPlatformConfig(env, name, baseUrl) ==
    LET credentials == [key \in CredentialKeys |-> getEnvVar(env, EnvName(key), FALSE)] IN
    [raised |-> \E key \in CredentialKeys : credentials[key] = Threw,
     name |-> name,
     enabled |-> env["_ENABLED"] = "true",
     baseUrl |-> baseUrl,
     version |-> "v1",
     credentials |-> credentials,
     timeout |-> OrDefault(0, 30000),
     retryAttempts |-> OrDefault(0, DefaultRetryAttempts),
     rateLimitPerMinute |-> OrDefault(0, 60)]

\* The loop of validateCredentials: the keys of `required`, in order, whose
\* credential is falsy.
RECURSIVE Missing(_, _)
Missing(credentials, required) ==
    IF required = <<>>
    THEN <<>>
    ELSE (IF Falsy(credentials[Head(required)]) THEN <<Head(required)>> ELSE <<>>)
         \o Missing(credentials, Tail(required))

\* A check for undefined only: an empty credential passes.
validateCredentials_UndefinedOnly(cfg, required) ==
    LET missing == SelectSeq(required, LAMBDA key : cfg.credentials[key] = Undefined) IN
    [valid |-> Len(missing) = 0, missing |-> missing]

\* validateCredentials(config, required)
validateCredentials(cfg, required) ==
    LET missing == Missing(cfg.credentials, required) IN
    [valid |-> Len(missing) = 0, missing |-> missing]

\* A sanitizer that lets one secret through.
sanitizeConfigForLogging_Leaky(cfg) ==
    [name |-> cfg.name, enabled |-> cfg.enabled, baseUrl |-> cfg.baseUrl,
     version |-> cfg.version, timeout |-> cfg.timeout,
     retryAttempts |-> cfg.retryAttempts,
     rateLimitPerMinute |-> cfg.rateLimitPerMinute,
     credentials |->
        [key \in CredentialKeys |->
            IF key = "webhookSecret" THEN cfg.credentials[key]
            ELSE IF Falsy(cfg.credentials[key]) THEN Undefined ELSE "[REDACTED]"]]

\* sanitizeConfigForLogging(config)
sanitizeConfigForLogging(cfg) ==
    [name |-> cfg.name, enabled |-> cfg.enabled, baseUrl |-> cfg.baseUrl,
     version |-> cfg.version, timeout |-> cfg.timeout,
     retryAttempts |-> cfg.retryAttempts,
     rateLimitPerMinute |-> cfg.rateLimitPerMinute,
     credentials |->
        [key \in CredentialKeys |->
            IF Falsy(cfg.credentials[key]) THEN Undefined ELSE "[REDACTED]"]]

(***************************************************************************)
(* State of one client and of the request() calls running on it.           *)
(***************************************************************************)
VARIABLES
    config,       \* the PlatformConfig the client was constructed with
    production,   \* process.env.NODE_ENV === 'production'
    now,          \* Date.now(), in seconds
    rateLimiter,  \* [remaining, limit, resetAt]
    call,         \* call[c]: the request() invocation of call site c
    windowCalls,  \* checkRateLimit runs since resetAt was last assigned
                  \* (history, saturating at limit + 1)
    platform,     \* a program using core/config.ts: its environment, the
                  \* config it created, its last validation and log output
    activeTunnels,  \* TunnelClient.activeTunnels: the ids it maps
    processes,      \* TunnelClient.processes: the ids it maps
    connection,     \* connection[id]: the TunnelConnection object made for id
    create,         \* create[id]: the createTunnel call that made id, the
                    \* promise it awaits and the child process it spawned
    lastCall,       \* whether closeAllTunnels is the TunnelClient method
                    \* that returned last (history)
    closed          \* the ids for which closeTunnel has returned true (history)

\* The state of the SafeHttpClient, and the state outside it.
clientVars == <<config, production, now, rateLimiter, call, windowCalls>>
tunnelVars == <<activeTunnels, processes, connection, create, lastCall, closed>>
outside == <<platform, tunnelVars>>
vars == <<clientVars, outside>>

Window == 60

NoUrl == UrlText("", "", "")
NoError == [attempt |-> -1, kind |-> "none"]
NoResult == [type |-> "none", attempt |-> -1, status |-> 0, error |-> "none"]

\* A call site with no request() in progress.
Idle ==
    [pc |-> "idle", pathSearch |-> <<>>, query |-> <<>>, url |-> NoUrl,
     headers |-> NoHeaders, attempt |-> 0, fetches |-> 0,
     lastError |-> NoError, waits |-> <<>>, rateWaits |-> 0, wakeAt |-> 0,
     result |-> NoResult]

\* What fetch() or response.json() can throw, and the statuses of a response.
FetchErrors == {"network", "timeout"}
JsonErrors == {"syntax"}
Statuses == {200, 500}

\* request() is over: its locals are gone, what stays is what the caller
\* gets and the history of the call (fetches, waits, rateWaits).
Over(r, pc, result) ==
    [r EXCEPT !.pc = pc, !.result = result, !.lastError = NoError, !.wakeAt = 0]

Thrown(r, kind, attempt) ==
    Over(r, "thrown",
         [type |-> "error", attempt |-> attempt, status |-> 0, error |-> kind])

Returned(r, status) ==
    Over(r, "returned",
         [type |-> "response", attempt |-> r.attempt, status |-> status,
          error |-> "none"])

\* A backoff that does not grow.
Backoff_Constant(attempt) == 1

\* Math.pow(2, attempt) seconds.
Backoff(attempt) == 2 ^ attempt

(***************************************************************************)
(* checkRateLimit, in its synchronous pieces.                              *)
(***************************************************************************)
\* if (Date.now() > resetAt) { remaining = limit; resetAt = now + 60000 }
ResetIfExpired(rl, t) ==
    IF t > rl.resetAt
    THEN [rl EXCEPT !.remaining = rl.limit, !.resetAt = t + Window]
    ELSE rl

\* The check off by one: a spent budget does not wait.
MustWait_Strict(rl) == rl.remaining < 0

\* if (remaining <= 0)
MustWait(rl) == rl.remaining <= 0

\* The wait without the restore of the budget.
AfterWait_Keep(rl) == rl

\* The budget emptied, not restored, after the wait.
AfterWait_Zero(rl) == [rl EXCEPT !.remaining = 0]

\* after the wait: remaining = limit
AfterWait(rl) == [rl EXCEPT !.remaining = rl.limit]

\* The decrement applied to the wrong field.
Decrement_Limit(rl) == [rl EXCEPT !.limit = rl.limit - 1]

\* remaining--
Decrement(rl) == [rl EXCEPT !.remaining = rl.remaining - 1]

Saturate(n) == IF n > rateLimiter.limit + 1 THEN rateLimiter.limit + 1 ELSE n

(***************************************************************************)
(* The retry loop of request().                                            *)
(***************************************************************************)
\* The loop bound off by one: attempt <= retryAttempts.
LoopAt_Inclusive(r, attempt) ==
    IF attempt <= config.retryAttempts
    THEN [r EXCEPT !.pc = "fetch", !.attempt = attempt, !.fetches = r.fetches + 1]
    ELSE Thrown([r EXCEPT !.attempt = attempt], r.lastError.kind, r.lastError.attempt)

\* The captured error dropped: the loop's exit always throws the fallback.
LoopAt_DropError(r, attempt) ==
    IF attempt < config.retryAttempts
    THEN [r EXCEPT !.pc = "fetch", !.attempt = attempt, !.fetches = r.fetches + 1]
    ELSE Thrown([r EXCEPT !.attempt = attempt], "Request failed after retries", -1)

\* for (attempt = ...; attempt < retryAttempts; ...) entered or re-entered at
\* `attempt`: either fetch() is issued or the loop is left and request()
\* throws lastError || new Error('Request failed after retries').
LoopAt(r, attempt) ==
    IF attempt < config.retryAttempts
    THEN [r EXCEPT !.pc = "fetch", !.attempt = attempt, !.fetches = r.fetches + 1]
    ELSE IF r.lastError # NoError
         THEN Thrown([r EXCEPT !.attempt = attempt], r.lastError.kind,
                     r.lastError.attempt)
         ELSE Thrown([r EXCEPT !.attempt = attempt],
                     "Request failed after retries", -1)

\* A timeout treated as final: rethrown at once, other errors retried.
Catch_TimeoutFatal(r, kind) ==
    LET r1 == [r EXCEPT !.lastError = [attempt |-> r.attempt, kind |-> kind]] IN
    IF kind = "timeout"
    THEN Thrown(r1, kind, r.attempt)
    ELSE IF r.attempt < config.retryAttempts - 1
    THEN [r1 EXCEPT !.pc = "backoff", !.wakeAt = now + Backoff(r.attempt),
                    !.waits = Append(r.waits, Backoff(r.attempt))]
    ELSE LoopAt(r1, r.attempt + 1)

\* The catch block: keep the error, sleep 2^attempt unless this was the
\* last attempt, then go round the loop.
Catch(r, kind) ==
    LET r1 == [r EXCEPT !.lastError = [attempt |-> r.attempt, kind |-> kind]] IN
    IF r.attempt < config.retryAttempts - 1
    THEN [r1 EXCEPT !.pc = "backoff", !.wakeAt = now + Backoff(r.attempt),
                    !.waits = Append(r.waits, Backoff(r.attempt))]
    ELSE LoopAt(r1, r.attempt + 1)

(***************************************************************************)
(* Actions.                                                                *)
(***************************************************************************)
\* The rate limiter consulted before the URL is validated: a rejected
\* request has spent budget.
Request_CheckFirst(c, path, query, optionHeaders) ==
    /\ call[c].pc = "idle"
    /\ LET url == buildUrl(path, query, config.baseUrl) IN
       /\ url # Failure
       /\ Rejects(url, production)
       /\ call' = [call EXCEPT ![c] =
                      Thrown([Idle EXCEPT !.url = url], "Invalid or blocked URL", -1)]
       /\ rateLimiter' = Decrement(ResetIfExpired(rateLimiter, now))
    /\ UNCHANGED <<config, production, now, windowCalls, outside>>

\* request(options) up to its first suspension: buildUrl, validateUrl,
\* checkRateLimit (reset, then wait or decrement), headers, first fetch().
Request(c, path, query, optionHeaders) ==
    /\ call[c].pc = "idle"
    /\ LET url == buildUrl(path, query, config.baseUrl) IN
       IF url = Failure
       THEN /\ call' = [call EXCEPT ![c] = Thrown(Idle, "TypeError: Invalid URL", -1)]
            /\ UNCHANGED <<rateLimiter, windowCalls>>
       ELSE IF Rejects(url, production)
       THEN /\ call' = [call EXCEPT ![c] =
                           Thrown([Idle EXCEPT !.url = url, !.pathSearch = path.search,
                                               !.query = query],
                                  "Invalid or blocked URL", -1)]
            /\ UNCHANGED <<rateLimiter, windowCalls>>
       ELSE LET rl == ResetIfExpired(rateLimiter, now)
                r1 == [Idle EXCEPT !.url = url, !.pathSearch = path.search,
                                   !.query = query,
                                   !.headers = RequestHeaders(config, optionHeaders)] IN
            /\ windowCalls' = IF rl.resetAt # rateLimiter.resetAt
                              THEN 1 ELSE Saturate(windowCalls + 1)
            /\ IF MustWait(rl)
               THEN /\ rateLimiter' = rl
                    /\ call' = [call EXCEPT ![c] =
                                   [r1 EXCEPT !.pc = "rateLimitWait",
                                              !.wakeAt = now + (rl.resetAt - now),
                                              !.rateWaits = 1]]
               ELSE /\ rateLimiter' = Decrement(rl)
                    /\ call' = [call EXCEPT ![c] = LoopAt(r1, 0)]
    /\ UNCHANGED <<config, production, now, outside>>

\* A hard limit: the resumed call runs the whole check again and goes back
\* to waiting when the budget is already spent.
RateLimitResume_Recheck(c) ==
    /\ call[c].pc = "rateLimitWait"
    /\ now >= call[c].wakeAt
    /\ LET rl == ResetIfExpired(rateLimiter, now) IN
       IF MustWait(rl)
       THEN /\ rateLimiter' = rl
            /\ call' = [call EXCEPT ![c].wakeAt = rl.resetAt + 1]
       ELSE /\ rateLimiter' = Decrement(rl)
            /\ call' = [call EXCEPT ![c] = LoopAt(call[c], 0)]
    /\ UNCHANGED <<config, production, now, windowCalls, outside>>

\* The rate-limit timer fires: remaining = limit; remaining--; first fetch().
RateLimitResume(c) ==
    /\ call[c].pc = "rateLimitWait"
    /\ now >= call[c].wakeAt
    /\ rateLimiter' = Decrement(AfterWait(rateLimiter))
    /\ call' = [call EXCEPT ![c] = LoopAt(call[c], 0)]
    /\ UNCHANGED <<config, production, now, windowCalls, outside>>

\* fetch() resolves with a response of some status and response.json()
\* resolves: request() returns the response envelope.
FetchResponds(c, status) ==
    /\ call[c].pc = "fetch"
    /\ call' = [call EXCEPT ![c] = Returned(call[c], status)]
    /\ UNCHANGED <<config, production, now, rateLimiter, windowCalls, outside>>

\* fetch() rejects: network failure or the AbortSignal timeout.
FetchThrows(c, kind) ==
    /\ call[c].pc = "fetch"
    /\ call' = [call EXCEPT ![c] = Catch(call[c], kind)]
    /\ UNCHANGED <<config, production, now, rateLimiter, windowCalls, outside>>

\* fetch() resolves with a response, but response.json() rejects: the body
\* is empty or not JSON, or the timeout aborts the read.
JsonThrows(c, status, kind) ==
    /\ call[c].pc = "fetch"
    /\ call' = [call EXCEPT ![c] = Catch(call[c], kind)]
    /\ UNCHANGED <<config, production, now, rateLimiter, windowCalls, outside>>

\* The sleep not awaited: the loop goes round while the timer still runs.
BackoffElapsed_Early(c) ==
    /\ call[c].pc = "backoff"
    /\ call' = [call EXCEPT ![c] = LoopAt(call[c], call[c].attempt + 1)]
    /\ UNCHANGED <<config, production, now, rateLimiter, windowCalls, outside>>

\* The backoff timer fires: attempt++ and the loop goes round.
BackoffElapsed(c) ==
    /\ call[c].pc = "backoff"
    /\ now >= call[c].wakeAt
    /\ call' = [call EXCEPT ![c] = LoopAt(call[c], call[c].attempt + 1)]
    /\ UNCHANGED <<config, production, now, rateLimiter, windowCalls, outside>>

\* The caller has taken the result; the call site is free for its next call.
Settle(c) ==
    /\ call[c].pc \in {"returned", "thrown"}
    /\ call' = [call EXCEPT ![c] = Idle]
    /\ UNCHANGED <<config, production, now, rateLimiter, windowCalls, outside>>

\* Time passes, to the next instant the client can tell apart: a pending
\* timer's deadline, the end of the window, or the second after it.
Instants ==
    {call[c].wakeAt : c \in {d \in Calls : call[d].pc \in {"rateLimitWait", "backoff"}}}
    \cup {rateLimiter.resetAt, rateLimiter.resetAt + 1}

Tick ==
    /\ \E t \in Instants : t > now /\ t <= MaxTime /\ now' = t
    /\ UNCHANGED <<config, production, rateLimiter, call, windowCalls, outside>>

\* Paths the call sites pass to request().
Paths ==
    {Relative, Absolute("https", "evil.example", ""),
     Absolute("https", "[::1]", ""), Absolute("http", "localhost", ""),
     Absolute("https", "127.1", ""), ProtocolRelative("evil.example", ""),
     Absolute("https", "[", "")}

\* The values a caller passes as options.retryAttempts.
RetryOptions == -1..MaxRetry

\* The retryAttempts of a config: any count when the config is written out
\* in full, what createPlatformConfig makes of the option otherwise.
RetryAttemptsValues ==
    (0..MaxRetry) \cup {OrDefault(o, DefaultRetryAttempts) : o \in RetryOptions}

\* The configurations a client is constructed with.
Configs ==
    [baseUrl : BaseUrls, version : {"v1"}, credentials : CredentialSets,
     retryAttempts : RetryAttemptsValues, rateLimitPerMinute : 0..MaxLimit]

\* new SafeHttpClient(cfg), under NODE_ENV = production or not.
Constructed(cfg, prod) ==
    /\ config = cfg
    /\ production = prod
    /\ now = 0
    /\ rateLimiter = [remaining |-> cfg.rateLimitPerMinute,
                      limit |-> cfg.rateLimitPerMinute,
                      resetAt |-> now + Window]
    /\ call = [c \in Calls |-> Idle]
    /\ windowCalls = 0

\* A program that has not touched core/config.ts.
NoPlatformConfig == createPlatformConfig([n \in EnvNames |-> Undefined], "", "")
NoPlatform ==
    [pc |-> "start", env |-> [n \in EnvNames |-> Undefined],
     config |-> NoPlatformConfig, required |-> <<>>,
     validation |-> [valid |-> TRUE, missing |-> <<>>],
     logged |-> sanitizeConfigForLogging(NoPlatformConfig)]

\* Tunnel ids: createTunnel makes a fresh one on every call.
Tunnels == 1..MaxTunnels

NoConnection == [provider |-> "none", status |-> "none"]
NotCreated ==
    [pc |-> "new", promise |-> "none", timer |-> FALSE, output |-> "",
     fetching |-> FALSE, proc |-> "none"]

\* new TunnelClient(): both maps empty, no call made.
NewTunnelClient ==
    /\ activeTunnels = {}
    /\ processes = {}
    /\ connection = [t \in Tunnels |-> NoConnection]
    /\ create = [t \in Tunnels |-> NotCreated]
    /\ lastCall = "other"
    /\ closed = {}

\* Nothing but the client is in use.
OnlyClient == platform = NoPlatform /\ NewTunnelClient

\* No other call site has a request() in progress or a result not yet taken.
Sequential(c) == \A d \in Calls \ {c} : call[d].pc = "idle"

\* What happens to a request() once it is under way, and the clock.
Progress ==
    \/ \E c \in Calls : RateLimitResume(c)
    \/ \E c \in Calls, status \in Statuses : FetchResponds(c, status)
    \/ \E c \in Calls, kind \in FetchErrors : FetchThrows(c, kind)
    \/ \E c \in Calls, status \in Statuses, kind \in JsonErrors : JsonThrows(c, status, kind)
    \/ \E c \in Calls : BackoffElapsed(c)
    \/ \E c \in Calls : Settle(c)
    \/ Tick

(***************************************************************************)
(* Spec: the client used sequentially (a call is made when no other is     *)
(* under way), every base URL, runtime mode, retry count, limit and path;  *)
(* the calls pass no headers and the client holds no credentials.          *)
(***************************************************************************)
Init ==
    \E cfg \in Configs, prod \in BOOLEAN :
        /\ cfg.credentials = NoCredentials
        /\ Constructed(cfg, prod)
        /\ OnlyClient

Next ==
    \/ \E c \in Calls, path \in Paths : Sequential(c) /\ Request(c, path, <<>>, NoHeaders)
    \/ Progress

Spec == Init /\ [][Next]_vars

(***************************************************************************)
(* ConcSpec: the client shared by concurrent call sites; calls interleave  *)
(* at their suspension points (rate-limit wait, network call, backoff).    *)
(***************************************************************************)
ConcPaths == {Relative, Absolute("https", "[", "")}

ConcInit ==
    \E cfg \in Configs, prod \in BOOLEAN :
        /\ cfg.credentials = NoCredentials
        /\ cfg.retryAttempts = 2
        /\ cfg.baseUrl.scheme = "https"
        /\ Constructed(cfg, prod)
        /\ OnlyClient

ConcNext ==
    \/ \E c \in Calls, path \in ConcPaths : Request(c, path, <<>>, NoHeaders)
    \/ Progress

ConcSpec == ConcInit /\ [][ConcNext]_vars

\* fetch() of call site c settles: a response, a rejection, or (at the
\* latest) the AbortSignal timeout.
FetchSettles(c) ==
    \/ \E status \in Statuses : FetchResponds(c, status)
    \/ \E kind \in FetchErrors : FetchThrows(c, kind)
    \/ \E status \in Statuses, kind \in JsonErrors : JsonThrows(c, status, kind)

\* The same under the event loop's scheduling: the program never halts
\* while something can run, a timer that is due fires, a fetch settles, and
\* a caller takes the result of its call.
FairConcSpec ==
    /\ ConcSpec
    /\ WF_vars(ConcNext)
    /\ \A c \in Calls :
          /\ WF_vars(RateLimitResume(c))
          /\ WF_vars(BackoffElapsed(c))
          /\ WF_vars(FetchSettles(c))
          /\ WF_vars(Settle(c))

(***************************************************************************)
(* LiveSpec: the client used sequentially, under the event loop's          *)
(* scheduling: a timer that is due fires and a fetch settles.  Whether the *)
(* clock reaches a timer's deadline is left to the property.               *)
(***************************************************************************)
LivePaths == {Relative, Absolute("https", "[", "")}

LiveInit ==
    \E cfg \in Configs :
        /\ cfg.credentials = NoCredentials
        /\ cfg.baseUrl.scheme = "https"
        /\ Constructed(cfg, FALSE)
        /\ OnlyClient

LiveNext ==
    \/ \E c \in Calls, path \in LivePaths :
          Sequential(c) /\ Request(c, path, <<>>, NoHeaders)
    \/ Progress

LiveSpec ==
    /\ LiveInit
    /\ [][LiveNext]_vars
    /\ \A c \in Calls :
          /\ WF_vars(RateLimitResume(c))
          /\ WF_vars(BackoffElapsed(c))
          /\ WF_vars(FetchSettles(c))

(***************************************************************************)
(* HeaderSpec: sequential calls with every combination of configured       *)
(* credentials and caller-supplied headers.                                *)
(***************************************************************************)
HeaderOptions == [HeaderNames -> {Absent, "caller"}]

HeaderInit ==
    \E cfg \in Configs :
        /\ cfg.retryAttempts = 2
        /\ cfg.rateLimitPerMinute = 1
        /\ cfg.baseUrl.scheme = "https"
        /\ Constructed(cfg, FALSE)
        /\ OnlyClient

HeaderNext ==
    \/ \E c \in Calls, h \in HeaderOptions : Sequential(c) /\ Request(c, Relative, <<>>, h)
    \/ Progress

HeaderSpec == HeaderInit /\ [][HeaderNext]_vars

(***************************************************************************)
(* QuerySpec: sequential calls whose path may carry a query string of its  *)
(* own, with every query map of up to two keys.                            *)
(***************************************************************************)
\* The entries of options.query: a Record has each key once.
QueryKeys == {"a", "b"}
QueryValues == {"1", "x y"}
QueryPairs == QueryKeys \X QueryValues
Queries ==
    {<<>>} \cup {<<p>> : p \in QueryPairs}
           \cup {<<pq[1], pq[2]>> :
                     pq \in {x \in QueryPairs \X QueryPairs : x[1][1] # x[2][1]}}

\* Paths with and without a query string, as the platform clients write them.
QueryPaths ==
    {Relative, WithSearch(Relative, <<<<"a", "1">>>>),
     WithSearch(Relative, <<<<"teamId", "x+y">>>>)}

QueryInit ==
    \E cfg \in Configs :
        /\ cfg.credentials = NoCredentials
        /\ cfg.retryAttempts = 2
        /\ cfg.rateLimitPerMinute = 1
        /\ cfg.baseUrl.scheme = "https"
        /\ Constructed(cfg, FALSE)
        /\ OnlyClient

QueryNext ==
    \/ \E c \in Calls, path \in QueryPaths, query \in Queries :
          Sequential(c) /\ Request(c, path, query, NoHeaders)
    \/ Progress

QuerySpec == QueryInit /\ [][QueryNext]_vars

(***************************************************************************)
(* ConfigSpec: a program that creates a platform config from its           *)
(* environment, then validates its credentials or logs it.                 *)
(***************************************************************************)
\* The `required` lists a caller passes, up to MaxRequired keys.
RequiredLists ==
    UNION {[1..n -> CredentialKeys] : n \in 0..MaxRequired}

\* const config = createPlatformConfig('Tunnels', 'http://localhost:4040', 'TUNNEL')
CreateConfig ==
    /\ platform.pc = "start"
    /\ LET cfg == createPlatformConfig(platform.env, "Tunnels", "http://localhost:4040") IN
       platform' = [platform EXCEPT !.pc = IF cfg.raised THEN "raised" ELSE "created",
                                    !.config = cfg]
    /\ UNCHANGED <<clientVars, tunnelVars>>

\* validateCredentials(config, required)
ValidateCredentials(required) ==
    /\ platform.pc = "created"
    /\ platform' = [platform EXCEPT
                       !.pc = "validated", !.required = required,
                       !.validation = validateCredentials(platform.config, required)]
    /\ UNCHANGED <<clientVars, tunnelVars>>

\* console.log(sanitizeConfigForLogging(config))
LogConfig ==
    /\ platform.pc = "created"
    /\ platform' = [platform EXCEPT
                       !.pc = "logged",
                       !.logged = sanitizeConfigForLogging(platform.config)]
    /\ UNCHANGED <<clientVars, tunnelVars>>

\* No client is in use: one is constructed and left alone.
IdleClient ==
    Constructed([baseUrl |-> UrlText("https", "api.example.com", ""), version |-> "v1",
                 credentials |-> NoCredentials, retryAttempts |-> DefaultRetryAttempts,
                 rateLimitPerMinute |-> 1], FALSE)

ConfigInit ==
    /\ IdleClient
    /\ NewTunnelClient
    /\ \E env \in Envs : platform = [NoPlatform EXCEPT !.env = env]

ConfigNext ==
    \/ CreateConfig
    \/ \E required \in RequiredLists : ValidateCredentials(required)
    \/ LogConfig

ConfigSpec == ConfigInit /\ [][ConfigNext]_vars

(***************************************************************************)
(* TunnelSpec: one TunnelClient (tunnels/index.ts). Its methods run to     *)
(* completion; a createTunnel call suspends once, at `await startTunnel`,  *)
(* and resumes after the promise settled. The child process, the timers    *)
(* and the ngrok API fetch act between the methods.                        *)
(***************************************************************************)
Providers == {"ngrok", "cloudflare", "localtunnel", "tailscale", "bore", "frp"}
Unsupported == "unsupported"

\* What the synchronous part of a start function meets: nothing, (frp) a
\* throw of writeFileSync, or (tailscale) a failing `tailscale status`.
\* spawn reports its failures through the 'error' event.
Starts(provider) ==
    CASE provider = "tailscale" -> {"ok", "noHostname"}
      [] provider = "frp" -> {"ok", "throws"}
      [] OTHER -> {"ok"}

\* The promise of a start function after its synchronous part.
Started(promise, timer) == [spawned |-> TRUE, promise |-> promise, timer |-> timer]
StartThrew == [spawned |-> FALSE, promise |-> "rejected", timer |-> FALSE]

startNgrokTunnel(start) == Started("pending", TRUE)
startCloudflareTunnel(start) == Started("pending", TRUE)
startLocaltunnel(start) == Started("pending", FALSE)
startTailscaleFunnel(start) ==
    Started(IF start = "noHostname" THEN "rejected" ELSE "resolved", FALSE)
startBoreTunnel(start) == Started("pending", FALSE)
startFrpTunnel(start) ==
    IF start = "throws" THEN StartThrew ELSE Started("pending", TRUE)

startTunnel(provider, start) ==
    CASE provider = "ngrok" -> startNgrokTunnel(start)
      [] provider = "cloudflare" -> startCloudflareTunnel(start)
      [] provider = "localtunnel" -> startLocaltunnel(start)
      [] provider = "tailscale" -> startTailscaleFunnel(start)
      [] provider = "bore" -> startBoreTunnel(start)
      [] provider = "frp" -> startFrpTunnel(start)
      [] OTHER -> StartThrew

\* The TunnelClient as one value, and the step that assigns it.
TunnelClient ==
    [activeTunnels |-> activeTunnels, processes |-> processes,
     connection |-> connection, create |-> create, closed |-> closed]
Becomes(tc) ==
    /\ activeTunnels' = tc.activeTunnels
    /\ processes' = tc.processes
    /\ connection' = tc.connection
    /\ create' = tc.create
    /\ closed' = tc.closed

\* closeTunnel that leaves the child process registered.
closeTunnel_KeepProcess(tunnelId, tc) ==
    IF tunnelId \in tc.activeTunnels
    THEN [tc EXCEPT !.connection[tunnelId].status = "disconnected",
                    !.activeTunnels = @ \ {tunnelId},
                    !.closed = @ \cup {tunnelId}]
    ELSE tc

\* closeTunnel(tunnelId): kills and forgets the process, marks and forgets
\* the connection. The id is in `closed` when it returned true.
closeTunnel(tunnelId, tc) ==
    LET killed == IF tunnelId \in tc.processes
                  THEN [tc EXCEPT !.processes = @ \ {tunnelId},
                                  !.create[tunnelId].proc = "killed"]
                  ELSE tc
    IN IF tunnelId \in killed.activeTunnels
       THEN [killed EXCEPT !.connection[tunnelId].status = "disconnected",
                           !.activeTunnels = @ \ {tunnelId},
                           !.closed = @ \cup {tunnelId}]
       ELSE killed

\* for (const [id] of this.activeTunnels) this.closeTunnel(id), in insertion
\* order.
RECURSIVE closeEach(_, _)
closeEach(ids, tc) ==
    IF ids = {} THEN tc
    ELSE LET id == CHOOSE i \in ids : \A j \in ids : i <= j
         IN closeEach(ids \ {id}, closeTunnel(id, tc))

closeAllTunnels(tc) == closeEach(tc.activeTunnels, tc)

\* listTunnels(): the connections activeTunnels maps.
listTunnels == [t \in activeTunnels |-> connection[t]]

\* resolve / reject of a start promise: the first call settles it. The timer
\* and the fetch still to come then find it settled and change nothing the
\* client reads: they are dropped here.
Settled(c, promise) ==
    IF c.promise = "pending"
    THEN [c EXCEPT !.promise = promise, !.timer = FALSE, !.fetching = FALSE]
    ELSE c
Resolve(c) == Settled(c, "resolved")
Reject(c) == Settled(c, "rejected")

\* The id Date.now() and Math.random() give: one not used before.
FreshId == CHOOSE t \in Tunnels :
    create[t].pc = "new" /\ \A u \in Tunnels : create[u].pc = "new" => t <= u

\* createTunnel(config) up to `await this.startTunnel(id, config)`.
CreateTunnel(provider, start) ==
    /\ \E t \in Tunnels : create[t].pc = "new"
    /\ LET id == FreshId
           started == startTunnel(provider, start)
       IN /\ connection' = [connection EXCEPT
                               ![id] = [provider |-> provider, status |-> "connecting"]]
          /\ activeTunnels' = activeTunnels \cup {id}
          /\ processes' = IF started.spawned THEN processes \cup {id} ELSE processes
          /\ create' = [create EXCEPT ![id] =
                           [NotCreated EXCEPT
                               !.pc = "awaiting", !.promise = started.promise,
                               !.timer = started.timer,
                               !.proc = IF started.spawned THEN "running" ELSE "none"]]
    /\ lastCall' = "other"
    /\ UNCHANGED <<closed, clientVars, platform>>

\* createTunnel after the await: the try's end or the catch, then return.
CreateResumes(t) ==
    /\ create[t].pc = "awaiting"
    /\ create[t].promise \in {"resolved", "rejected"}
    /\ connection' = [connection EXCEPT ![t].status =
                         IF create[t].promise = "resolved" THEN "connected" ELSE "error"]
    /\ create' = [create EXCEPT ![t].pc = "returned"]
    /\ UNCHANGED <<activeTunnels, processes, lastCall, closed, clientVars, platform>>

\* The child writes to the stream the start function listens on: its public
\* URL, or (cloudflared) a line that names trycloudflare.com without one.
ProcessPrints(t, text) ==
    /\ create[t].proc = "running"
    /\ create[t].promise = "pending"
    /\ \/ /\ connection[t].provider = "cloudflare"
          /\ text = "mention"
          /\ create[t].output = ""
          /\ create' = [create EXCEPT ![t].output = "mention"]
       \/ /\ connection[t].provider \in {"cloudflare", "localtunnel", "bore"}
          /\ text = "url"
          /\ create' = [create EXCEPT ![t] = Resolve(@)]
    /\ UNCHANGED <<activeTunnels, processes, connection, lastCall, closed,
                   clientVars, platform>>

\* proc.on('error', reject)
ProcessError(t) ==
    /\ create[t].proc # "none"
    /\ create[t].promise = "pending"
    /\ create' = [create EXCEPT ![t] = Reject(@)]
    /\ UNCHANGED <<activeTunnels, processes, connection, lastCall, closed,
                   clientVars, platform>>

\* The setTimeout callback of startNgrokTunnel (3000 ms),
\* startCloudflareTunnel (30000 ms) or startFrpTunnel (2000 ms).
TimerFires(t) ==
    /\ create[t].timer
    /\ LET c == [create[t] EXCEPT !.timer = FALSE] IN
       create' = [create EXCEPT ![t] =
           CASE connection[t].provider = "ngrok" -> [c EXCEPT !.fetching = TRUE]
             [] connection[t].provider = "cloudflare" ->
                    IF c.output = "" THEN Reject(c) ELSE c
             [] OTHER -> Resolve(c)]
    /\ UNCHANGED <<activeTunnels, processes, connection, lastCall, closed,
                   clientVars, platform>>

\* fetch('http://localhost:4040/api/tunnels') of the ngrok timer settles:
\* the tunnel is listed, is not listed, or the fetch or its JSON throws.
NgrokFetchOutcomes == {"found", "missing", "throws"}
NgrokFetchSettles(t, outcome) ==
    /\ create[t].fetching
    /\ LET c == [create[t] EXCEPT !.fetching = FALSE] IN
       create' = [create EXCEPT ![t] =
                     IF outcome = "found" THEN Resolve(c) ELSE Reject(c)]
    /\ UNCHANGED <<activeTunnels, processes, connection, lastCall, closed,
                   clientVars, platform>>

\* closeTunnel(tunnelId), for any id the caller holds.
CloseTunnel(t) ==
    /\ create[t].pc # "new"
    /\ Becomes(closeTunnel(t, TunnelClient))
    /\ lastCall' = "other"
    /\ UNCHANGED <<clientVars, platform>>

\* closeAllTunnels()
CloseAllTunnels ==
    /\ Becomes(closeAllTunnels(TunnelClient))
    /\ lastCall' = "closeAllTunnels"
    /\ UNCHANGED <<clientVars, platform>>

TunnelInit ==
    /\ IdleClient
    /\ platform = NoPlatform
    /\ NewTunnelClient

TunnelNext ==
    \/ \E provider \in Providers \cup {Unsupported} :
          \E start \in Starts(provider) : CreateTunnel(provider, start)
    \/ \E t \in Tunnels :
          \/ CreateResumes(t)
          \/ \E text \in {"mention", "url"} : ProcessPrints(t, text)
          \/ ProcessError(t)
          \/ TimerFires(t)
          \/ \E outcome \in NgrokFetchOutcomes : NgrokFetchSettles(t, outcome)
          \/ CloseTunnel(t)
    \/ CloseAllTunnels

TunnelSpec == TunnelInit /\ [][TunnelNext]_vars

\* Timers fire, the local fetch settles and a settled promise resumes its
\* createTunnel; what the child process does is up to the process.
FairTunnelSpec ==
    /\ TunnelSpec
    /\ \A t \in Tunnels :
          /\ WF_vars(TimerFires(t))
          /\ WF_vars(\E outcome \in NgrokFetchOutcomes : NgrokFetchSettles(t, outcome))
          /\ WF_vars(CreateResumes(t))

(***************************************************************************)
(* Properties.                                                             *)
(***************************************************************************)
InvalidUrlErrors == {"TypeError: Invalid URL", "Invalid or blocked URL"}
AttemptErrors == FetchErrors \cup JsonErrors

\* The first k backoff waits: 1, 2, 4, ...
Backoffs(k) == [i \in 1..k |-> 2 ^ (i - 1)]

\* In this step call site c makes a request() that reaches checkRateLimit.
EntersCheck(c) ==
    /\ call[c].pc = "idle"
    /\ call'[c].pc # "idle"
    /\ call'[c].result.error \notin InvalidUrlErrors

\* C1: with limit L >= 1 and sequential use, the first L calls made inside
\* one window pass checkRateLimit without waiting; the (L+1)-th call of the
\* window is suspended until resetAt, is admitted no earlier, and leaves
\* remaining = L - 1 when it is admitted.
C1_Step ==
    \A c \in Calls :
        rateLimiter.limit >= 1 =>
            /\ (EntersCheck(c) /\ now <= rateLimiter.resetAt
                    /\ windowCalls < rateLimiter.limit)
                 => call'[c].pc # "rateLimitWait"
            /\ (EntersCheck(c) /\ now <= rateLimiter.resetAt
                    /\ windowCalls = rateLimiter.limit)
                 => /\ call'[c].pc = "rateLimitWait"
                    /\ call'[c].wakeAt = rateLimiter.resetAt
                    /\ rateLimiter' = rateLimiter
            /\ (call[c].pc = "rateLimitWait" /\ call'[c].pc # "rateLimitWait")
                 => /\ now >= rateLimiter.resetAt
                    /\ rateLimiter'.remaining = rateLimiter.limit - 1

C1_WindowBudget == [][C1_Step]_vars

\* The third call of a window with limit 2 has waited and been admitted.
C1_Witness ==
    \E c \in Calls :
        /\ rateLimiter.limit = 2
        /\ windowCalls = 3
        /\ call[c].rateWaits = 1
        /\ call[c].pc = "fetch"
        /\ rateLimiter.remaining = 1
        /\ now >= rateLimiter.resetAt

\* C2: with limit >= 1, 0 <= remaining <= limit in every state between the
\* synchronous steps of checkRateLimit, however the calls interleave.
C2_RemainingInRange ==
    rateLimiter.limit >= 1 =>
        /\ 0 <= rateLimiter.remaining
        /\ rateLimiter.remaining <= rateLimiter.limit

\* Two calls were suspended together on a limit of 1 and both were admitted.
C2_Witness ==
    /\ rateLimiter.limit = 1
    /\ rateLimiter.remaining = 0
    /\ \A c \in Calls : call[c].rateWaits = 1 /\ call[c].pc = "fetch"

\* C3: with retryAttempts = N >= 1, a call whose every attempt fails makes
\* exactly N fetches, waits 2^i seconds after attempt i < N - 1 and not
\* after the last attempt, and throws the error of the last attempt.
C3_AllAttemptsFail ==
    \A c \in Calls :
        config.retryAttempts >= 1 =>
            /\ (call[c].pc = "thrown" /\ call[c].result.error \notin InvalidUrlErrors)
                 => /\ call[c].fetches = config.retryAttempts
                    /\ call[c].waits = Backoffs(config.retryAttempts - 1)
                    /\ call[c].result.type = "error"
                    /\ call[c].result.attempt = config.retryAttempts - 1
                    /\ call[c].result.error \in AttemptErrors
            /\ call[c].pc = "backoff"
                 => /\ call[c].attempt < config.retryAttempts - 1
                    /\ call[c].waits = Backoffs(call[c].attempt + 1)

\* Three attempts failed, with waits of 1 s and 2 s, and the call threw.
C3_Witness ==
    \E c \in Calls :
        /\ config.retryAttempts = 3
        /\ call[c].pc = "thrown"
        /\ call[c].fetches = 3
        /\ call[c].waits = <<1, 2>>
        /\ call[c].result.attempt = 2

\* C4: a call that returns has made k <= N fetches, the first k - 1 of which
\* failed and were followed by their backoff; the response it returns is the
\* one of fetch k, and no error is surfaced.
C4_SuccessAfterFailures ==
    \A c \in Calls :
        call[c].pc = "returned" =>
            /\ call[c].fetches >= 1
            /\ call[c].fetches <= config.retryAttempts
            /\ call[c].result.type = "response"
            /\ call[c].result.attempt = call[c].fetches - 1
            /\ call[c].result.error = "none"
            /\ call[c].waits = Backoffs(call[c].fetches - 1)

\* Two attempts failed and the third one's response was returned.
C4_Witness ==
    \E c \in Calls :
        /\ config.retryAttempts = 3
        /\ call[c].pc = "returned"
        /\ call[c].fetches = 3
        /\ call[c].result.attempt = 2
        /\ call[c].waits = <<1, 2>>

\* The host a serialized hostname designates: an IPv6 literal without its
\* brackets.
HostAddress(hostname) == IF hostname = "[::1]" THEN "::1" ELSE hostname

\* C5: a parseable URL is accepted if and only if the runtime is not in
\* production mode, or the scheme is https and the host is none of
\* localhost, 127.0.0.1, 0.0.0.0, ::1.
C5_ValidateUrlPolicy ==
    \A c \in Calls :
        (call[c].pc # "idle" /\ call[c].url # NoUrl) =>
            ((call[c].result.error # "Invalid or blocked URL")
                <=> \/ ~production
                    \/ /\ call[c].url.scheme = "https"
                       /\ HostAddress(call[c].url.host) \notin blockedHosts)

\* C6: a request() whose URL does not parse or is refused by validateUrl
\* throws the invalid-URL error at once: no fetch, no backoff, no
\* rate-limit wait, in production mode or not.
C6_InvalidUrlAborts ==
    \A c \in Calls :
        (call[c].pc # "idle"
            /\ (call[c].url = NoUrl \/ ~validateUrl(call[c].url, production)))
          => /\ call[c].pc = "thrown"
             /\ call[c].result.type = "error"
             /\ call[c].result.error \in InvalidUrlErrors
             /\ call[c].fetches = 0
             /\ call[c].waits = <<>>
             /\ call[c].rateWaits = 0

\* A blocked URL was refused at once although the window's budget was spent.
C6_Witness ==
    \E c \in Calls :
        /\ call[c].pc = "thrown"
        /\ call[c].result.error = "Invalid or blocked URL"
        /\ call[c].fetches = 0
        /\ rateLimiter.limit >= 1
        /\ rateLimiter.remaining = 0
        /\ now <= rateLimiter.resetAt

\* C7: the URL a request is sent to has the origin (scheme, host, port) of
\* the configured base URL, whatever the path.
C7_SameOrigin ==
    \A c \in Calls :
        call[c].fetches > 0 =>
            Origin(NewURL(call[c].url)) = Origin(NewURL(config.baseUrl))

\* C8: a sent request carries Authorization: Bearer <accessToken> and no
\* X-API-Key when an access token is configured; X-API-Key and no
\* Authorization when only an API key is; neither when none is configured.
C8_AuthHeaderSelection ==
    \A c \in Calls :
        call[c].fetches > 0 =>
            LET h == call[c].headers
                cr == config.credentials IN
            /\ cr.accessToken # ""
                 => /\ h["Authorization"] = "Bearer " \o cr.accessToken
                    /\ h["X-API-Key"] = Absent
            /\ (cr.accessToken = "" /\ cr.apiKey # "")
                 => /\ h["X-API-Key"] = cr.apiKey
                    /\ h["Authorization"] = Absent
            /\ (cr.accessToken = "" /\ cr.apiKey = "")
                 => /\ h["X-API-Key"] = Absent
                    /\ h["Authorization"] = Absent

\* C9: the auth headers sent are the ones derived from the configured
\* credentials, whatever headers the caller supplies.
C9_AuthNotOverridable ==
    \A c \in Calls :
        call[c].fetches > 0 =>
            \A n \in AuthNames :
                call[c].headers[n] = getAuthHeaders(config.credentials)[n]

\* C10: a non-2xx response is a failed attempt: request() never returns one.
C10_Non2xxIsFailure ==
    \A c \in Calls :
        call[c].pc = "returned" => call[c].result.status \in 200..299

\* In this step the checkRateLimit of call site c completes: at once, or on
\* resuming from its wait.
ResumesFromWait(c) == call[c].pc = "rateLimitWait" /\ call'[c].pc # "rateLimitWait"
PassesCheck(c) ==
    \/ EntersCheck(c) /\ call'[c].pc # "rateLimitWait"
    \/ ResumesFromWait(c)

\* C11: a checkRateLimit that starts after resetAt has passed resets first
\* (resetAt = now + 60) and decrements afterwards: when it completes,
\* remaining = limit - 1 and resetAt lies in the future.  (A call waiting as
\* the first check since a reset is one whose own check did the reset.)
C11_Step ==
    \A c \in Calls :
        /\ (EntersCheck(c) /\ now > rateLimiter.resetAt)
             => /\ rateLimiter'.resetAt = now + Window
                /\ call'[c].pc # "rateLimitWait"
                     => rateLimiter'.remaining = rateLimiter.limit - 1
        /\ (ResumesFromWait(c) /\ windowCalls = 1 /\ rateLimiter.resetAt # Window)
             => /\ rateLimiter'.remaining = rateLimiter.limit - 1
                /\ rateLimiter'.resetAt > now

C11_ResetBeforeDecrement == [][C11_Step]_vars

\* C12: a call that was suspended on remaining <= 0 resets the limiter when
\* it resumes, as for an expired window: remaining = limit, then the
\* decrement, and resetAt moved 60 seconds ahead, so that resetAt lies in the
\* future after the resumed call.
C12_Step ==
    \A c \in Calls :
        ResumesFromWait(c)
          => /\ rateLimiter'.remaining = rateLimiter.limit - 1
             /\ rateLimiter'.resetAt \in {now + Window, rateLimiter.resetAt + Window}
             /\ rateLimiter'.resetAt > now

C12_ResumeOpensWindow == [][C12_Step]_vars

\* C13: every network attempt of request(), retries included, goes through
\* the rate limiter: the step that issues a fetch lowers remaining by one
\* (to limit - 1 when the limiter was reset or restored first).
C13_Step ==
    \A c \in Calls :
        call'[c].fetches = call[c].fetches + 1
          => \/ rateLimiter'.remaining = rateLimiter.remaining - 1
             \/ rateLimiter'.remaining = rateLimiter.limit - 1

C13_EveryAttemptCounted == [][C13_Step]_vars

\* Every call site has a request() past its URL checks and not yet over.
ConcurrentLoad ==
    \A c \in Calls : call[c].pc \in {"rateLimitWait", "fetch", "backoff"}

C14_Step ==
    \A c \in Calls :
        (rateLimiter.limit >= 1 /\ PassesCheck(c))
          => /\ rateLimiter'.remaining >= 0
             /\ \/ /\ rateLimiter.remaining >= 1
                   /\ rateLimiter'.remaining = rateLimiter.remaining - 1
                \/ rateLimiter'.remaining = rateLimiter.limit - 1

C15_Step ==
    \A c \in Calls :
        (call[c].pc = "rateLimitWait" /\ call'[c] # call[c])
          => /\ now >= call[c].wakeAt
             /\ call'[c].pc = "fetch"
             /\ call'[c].fetches = 1
             /\ rateLimiter'.remaining = rateLimiter.limit - 1

C15_SoftLimit == [][C15_Step]_vars

\* With a limit of 1, two calls that waited for the same end of window have
\* both been admitted at that instant.
C15_Witness ==
    /\ rateLimiter.limit = 1
    /\ now = rateLimiter.resetAt
    /\ \A c \in Calls :
          /\ call[c].rateWaits = 1
          /\ call[c].wakeAt = rateLimiter.resetAt
          /\ call[c].pc = "fetch"
          /\ call[c].fetches = 1

\* C16: the attempts of one request() follow one another: a fetch is
\* started only when none of the call is in flight; a fetch other than the
\* first is started only from the backoff of the attempt before it, which
\* has ended with an error, and not before the 2^i seconds set at that
\* failure have elapsed; the end of an attempt never starts the next one.
C16_Step ==
    \A c \in Calls :
        /\ call'[c].fetches = call[c].fetches + 1
             => /\ call[c].pc # "fetch"
                /\ call'[c].pc = "fetch"
                /\ call[c].fetches >= 1
                     => /\ call[c].pc = "backoff"
                        /\ call[c].lastError.attempt = call[c].attempt
                        /\ call'[c].attempt = call[c].attempt + 1
                        /\ now >= call[c].wakeAt
        /\ (call[c].pc = "fetch" /\ call'[c].pc # "fetch")
             => /\ call'[c].fetches = call[c].fetches
                /\ call'[c].pc = "backoff"
                     => call'[c].wakeAt = now + 2 ^ call[c].attempt

C16_AttemptsInSequence == [][C16_Step]_vars

\* The third attempt of a call is in flight, after the waits of 1 s and 2 s
\* that followed the first two.
C16_Witness ==
    \E c \in Calls :
        /\ call[c].pc = "fetch"
        /\ call[c].fetches = 3
        /\ call[c].attempt = 2
        /\ call[c].wakeAt >= 3
        /\ now >= call[c].wakeAt

\* C17: after construction no step changes the PlatformConfig or
\* rateLimiter.limit (which stays the configured rateLimitPerMinute);
\* remaining and resetAt change only in a step of a request(): its
\* checkRateLimit, entered or resumed.
C17_Step ==
    /\ config' = config
    /\ rateLimiter'.limit = rateLimiter.limit
    /\ rateLimiter.limit = config.rateLimitPerMinute
    /\ rateLimiter' # rateLimiter
         => \E c \in Calls : EntersCheck(c) \/ ResumesFromWait(c)

C17_Frame == [][C17_Step]_vars

\* Requests have spent budget in a window opened by a reset, and one of
\* them has returned.
C17_Witness ==
    /\ rateLimiter.remaining < rateLimiter.limit
    /\ rateLimiter.resetAt > Window
    /\ \E c \in Calls : call[c].pc = "returned"

\* C18 (as stated): a request() that fails after the retry loop throws an
\* error captured from one of its attempts, whatever the retryAttempts.
C18_FallbackUnreachable ==
    \A c \in Calls :
        (call[c].pc = "thrown" /\ call[c].result.error \notin InvalidUrlErrors)
          => call[c].result.error \in AttemptErrors

\* C18: with retryAttempts >= 1 a request() that fails after the retry loop
\* throws the error captured from its last attempt; with retryAttempts <= 0
\* the loop body never runs and request() throws the fallback 'Request
\* failed after retries' without any fetch.
C18_FallbackOnlyWithoutAttempts ==
    \A c \in Calls :
        (call[c].pc = "thrown" /\ call[c].result.error \notin InvalidUrlErrors)
          => IF config.retryAttempts >= 1
             THEN /\ call[c].result.error \in AttemptErrors
                  /\ call[c].result.attempt = config.retryAttempts - 1
                  /\ call[c].fetches = config.retryAttempts
             ELSE /\ call[c].result.error = "Request failed after retries"
                  /\ call[c].fetches = 0
                  /\ call[c].waits = <<>>

\* A client whose retryAttempts of -1 passed through createPlatformConfig
\* has thrown the fallback error without a fetch.
C18_Witness ==
    \E c \in Calls :
        /\ config.retryAttempts = OrDefault(-1, DefaultRetryAttempts)
        /\ config.retryAttempts < 0
        /\ call[c].pc = "thrown"
        /\ call[c].result.error = "Request failed after retries"
        /\ call[c].fetches = 0

\* In this step the attempt of call site c that is in flight fails with an
\* error of the given kind.
Fails(c, kind) ==
    /\ call[c].pc = "fetch"
    /\ \/ call'[c].lastError = [attempt |-> call[c].attempt, kind |-> kind]
       \/ call'[c].result = [type |-> "error", attempt |-> call[c].attempt,
                             status |-> 0, error |-> kind]

\* C19: an attempt that times out is handled as an attempt that fails in
\* any other way: it has used up its place among the retryAttempts; when
\* attempts remain the call sleeps 2^attempt seconds and will retry, and
\* otherwise it throws the error of this attempt.
C19_Step ==
    \A c \in Calls, kind \in AttemptErrors :
        Fails(c, kind)
          => /\ call'[c].fetches = call[c].fetches
             /\ call'[c].attempt >= call[c].attempt
             /\ IF call[c].attempt < config.retryAttempts - 1
                THEN /\ call'[c].pc = "backoff"
                     /\ call'[c].attempt = call[c].attempt
                     /\ call'[c].wakeAt = now + 2 ^ call[c].attempt
                     /\ call'[c].waits = Append(call[c].waits, 2 ^ call[c].attempt)
                ELSE /\ call'[c].pc = "thrown"
                     /\ call'[c].result.error = kind
                     /\ call'[c].waits = call[c].waits

C19_TimeoutIsAFailedAttempt == [][C19_Step]_vars

\* The first attempt timed out, the call slept 1 s, and its second attempt
\* is in flight.
C19_Witness ==
    \E c \in Calls :
        /\ call[c].pc = "fetch"
        /\ call[c].attempt = 1
        /\ call[c].fetches = 2
        /\ call[c].lastError = [attempt |-> 0, kind |-> "timeout"]
        /\ call[c].waits = <<1>>

\* How many times a sequence of pairs holds the pair p.
PairCount(pairs, p) == Cardinality({i \in 1..Len(pairs) : pairs[i] = p})
PairsOf(pairs) == {pairs[i] : i \in 1..Len(pairs)}

\* The key/value pairs a server reads from the URL request() has built.
SentParams(c) == NewURL(call[c].url).searchParams

\* C20 (as stated): the query string of the built URL holds exactly the
\* key/value pairs of the query map, each once, in any order, whether or
\* not the path has a query string of its own.
C20_ExactlyQueryPairs ==
    \A c \in Calls :
        call[c].url # NoUrl =>
            \A p \in PairsOf(SentParams(c)) \cup PairsOf(call[c].query) :
                PairCount(SentParams(c), p) = PairCount(call[c].query, p)

\* C20: the query string of the built URL holds the pairs of the path's own
\* query string followed by the pairs of the query map, in the map's order,
\* keys and values surviving the encoding; it holds exactly the pairs of the
\* map when the path has no query string.
C20_PathPairsThenQueryPairs ==
    \A c \in Calls :
        call[c].url # NoUrl =>
            /\ SentParams(c) = ParseSearch(call[c].pathSearch) \o call[c].query
            /\ call[c].pathSearch = <<>>
                 => \A p \in PairsOf(SentParams(c)) \cup PairsOf(call[c].query) :
                        PairCount(SentParams(c), p) = PairCount(call[c].query, p)

\* A request was sent for a path with ?teamId=x+y and a query map of two
\* entries, one of them with a space in its value.
C20_Witness ==
    \E c \in Calls :
        /\ call[c].fetches > 0
        /\ call[c].pathSearch = <<<<"teamId", "x+y">>>>
        /\ call[c].query = <<<<"b", "x y">>, <<"a", "1">>>>
        /\ call[c].url.search = <<<<"teamId", "x+y">>, <<"b", "x+y">>, <<"a", "1">>>>

\* C21: createPlatformConfig does not raise whatever credential variables
\* are unset, and leaves each credential as the environment has it;
\* validateCredentials answers valid exactly when every required key has a
\* non-empty credential, and lists as missing the required keys that have
\* none, in the order given.
C21_CredentialCheck ==
    /\ platform.pc # "raised"
    /\ platform.pc # "start"
         => /\ ~platform.config.raised
            /\ \A key \in CredentialKeys :
                  platform.config.credentials[key] = platform.env[EnvName(key)]
    /\ platform.pc = "validated"
         => LET has(key) == platform.env[EnvName(key)] \in Secrets
                required == platform.required IN
            /\ platform.validation.valid
                 <=> \A i \in 1..Len(required) : has(required[i])
            /\ platform.validation.missing
                 = SelectSeq(required, LAMBDA key : ~has(key))

\* With the access token unset and the webhook secret empty, a check for
\* <<webhookSecret, accessToken>> lists both as missing, in that order.
C21_Witness ==
    /\ platform.pc = "validated"
    /\ platform.env["_ACCESS_TOKEN"] = Undefined
    /\ platform.env["_WEBHOOK_SECRET"] = ""
    /\ platform.env["_API_KEY"] = "s1"
    /\ platform.required = <<"webhookSecret", "accessToken">>
    /\ platform.validation = [valid |-> FALSE, missing |-> <<"webhookSecret", "accessToken">>]

\* Environments that give the same non-credential fields and have the same
\* credentials present (set to a non-empty value).
SamePresence(e1, e2) ==
    /\ e1["_ENABLED"] = e2["_ENABLED"]
    /\ \A key \in CredentialKeys :
          Falsy(e1[EnvName(key)]) <=> Falsy(e2[EnvName(key)])

\* C22: the sanitized config contains no credential value, and it is the
\* same for any config that differs from the logged one only in the values
\* of the credentials that are present.
C22_SanitizedHidesSecrets ==
    platform.pc = "logged"
      => /\ \A key \in CredentialKeys :
               platform.logged.credentials[key] \in {Undefined, "[REDACTED]"}
         /\ \A env \in Envs :
               SamePresence(env, platform.env)
                 => sanitizeConfigForLogging(
                        createPlatformConfig(env, platform.config.name,
                                             platform.config.baseUrl))
                    = platform.logged

\* A config with two different secrets, an empty credential and unset ones
\* has been logged with the secrets redacted.
C22_Witness ==
    /\ platform.pc = "logged"
    /\ platform.config.credentials["apiKey"] = "s1"
    /\ platform.config.credentials["accessToken"] = "s2"
    /\ platform.config.credentials["apiSecret"] = ""
    /\ platform.config.credentials["refreshToken"] = Undefined
    /\ platform.logged.credentials["apiKey"] = "[REDACTED]"
    /\ platform.logged.credentials["accessToken"] = "[REDACTED]"
    /\ platform.logged.credentials["apiSecret"] = Undefined
    /\ platform.logged.name = "Tunnels"

\* Every timer that is pending is due.
TimersDue ==
    \A c \in Calls :
        call[c].pc \in {"rateLimitWait", "backoff"} => now >= call[c].wakeAt

\* C23: a request() makes at most retryAttempts fetches (none when the
\* count is not positive) and waits for the rate limiter at most once; and
\* if the clock reaches the deadline of every timer, each call that has
\* started ends by returning or throwing.
C23_Terminates ==
    /\ [](\A c \in Calls :
            /\ call[c].fetches <= (IF config.retryAttempts > 0
                                   THEN config.retryAttempts ELSE 0)
            /\ call[c].rateWaits <= 1)
    /\ ([]<>TimersDue)
         => \A c \in Calls :
               (call[c].pc # "idle") ~> (call[c].pc \in {"returned", "thrown"})

\* A call that waited for the rate limiter and failed three times has
\* thrown.
C23_Witness ==
    \E c \in Calls :
        /\ config.retryAttempts = 3
        /\ call[c].pc = "thrown"
        /\ call[c].rateWaits = 1
        /\ call[c].fetches = 3
        /\ call[c].waits = <<1, 2>>
        /\ now > Window

\* C24: a call sends its request again only after an attempt that got no
\* response: never after one whose response arrived and whose body could
\* not be read as JSON.
C24_Step ==
    \A c \in Calls :
        call'[c].fetches = call[c].fetches + 1
          => call[c].lastError.kind \notin JsonErrors

C24_NoResendAfterResponse == [][C24_Step]_vars

\* C25: with limit L >= 1 and sequential use, the window that a suspended
\* call opens on resuming is not replaced before its 60 seconds are over.
\* The call counted L + 1 in a window is the one that waited, and it resumed
\* at resetAt or later; so a call made less than 60 seconds after resetAt
\* falls within 60 seconds of the resume, and must not reset the limiter to
\* a fresh budget of L.
C25_Step ==
    \A c \in Calls :
        (rateLimiter.limit >= 1 /\ EntersCheck(c)
            /\ windowCalls = rateLimiter.limit + 1
            /\ now < rateLimiter.resetAt + Window)
          => /\ rateLimiter'.resetAt = rateLimiter.resetAt
             /\ rateLimiter'.remaining <= rateLimiter.remaining

C25_NoFreshBudgetAfterResume == [][C25_Step]_vars

\* C26: a request() that throws because its URL cannot be built or is
\* refused by validateUrl leaves the rate limiter as it was: remaining and
\* resetAt are not touched, even when the window has expired.
C26_Step ==
    \A c \in Calls :
        (call[c].pc = "idle" /\ call'[c].pc = "thrown"
            /\ call'[c].result.error \in InvalidUrlErrors)
          => /\ rateLimiter' = rateLimiter
             /\ windowCalls' = windowCalls

C26_RejectedKeepsBudget == [][C26_Step]_vars

\* A request was refused after the window had expired, with part of the
\* budget spent: the limiter still shows the expired window.
C26_Witness ==
    \E c \in Calls :
        /\ call[c].pc = "thrown"
        /\ call[c].result.error = "Invalid or blocked URL"
        /\ now > rateLimiter.resetAt
        /\ rateLimiter.limit = 2
        /\ rateLimiter.remaining = 1
        /\ windowCalls = 1

\* C27: listTunnels() returns only connections whose status is
\* 'connecting' or 'connected': a tunnel whose start failed or that was
\* closed is not listed.
C27_ListsOnlyActive ==
    \A t \in DOMAIN listTunnels : listTunnels[t].status \in {"connecting", "connected"}

\* C28: once closeTunnel(id) has returned true, the connection of id keeps
\* status 'disconnected', whatever the createTunnel call that made it does
\* afterwards.
C28_ClosedStaysDisconnected ==
    \A t \in closed : connection[t].status = "disconnected"

\* C29: every createTunnel call returns in the end, with its connection
\* 'connected' or 'error', for every provider and whatever the child
\* process does.
C29_CreateReturns ==
    \A t \in Tunnels :
        (create[t].pc = "awaiting") ~> (create[t].pc = "returned")

\* C30: every id with a registered child process has an entry in
\* activeTunnels, and after closeAllTunnels() returned both maps are empty
\* until the next call, whatever createTunnel calls were in progress.
C30_ProcessesHaveEntries ==
    /\ processes \subseteq activeTunnels
    /\ lastCall = "closeAllTunnels" => (activeTunnels = {} /\ processes = {})

\* closeAllTunnels() returned while a createTunnel was awaiting its start
\* and another tunnel had failed with its process still registered.
C30_Witness ==
    /\ lastCall = "closeAllTunnels"
    /\ \E t, u \in closed :
          /\ create[t].pc = "awaiting" /\ create[t].proc = "killed"
          /\ create[u].pc = "returned" /\ create[u].proc = "killed"
          /\ create[u].promise = "rejected"

====
